---- MODULE Spec2Model ----
(***************************************************************************)
(* Model of _wrap_::InstanceTable                                          *)
(* (Utilities/Cable/WrapTclFacility/wrapInstanceTable.cxx).                *)
(*                                                                         *)
(* The table maps instance names to (object, type) References, keeps a     *)
(* reverse map from object addresses to names, a map from types to delete  *)
(* functions and a counter for temporary names.  Every member function is  *)
(* an operator from a table record to a table record; an exception is the  *)
(* field exc of the result, and a caller that sees it set returns at once  *)
(* (nothing in the file catches).  The field ev is the trace of the steps  *)
(* the call has executed, in order.                                        *)
(***************************************************************************)
EXTENDS Integers, Sequences, FiniteSets, TLC

VARIABLES m_InstanceMap, m_AddressToNameMap, m_DeleteFunctionMap,
          m_TempNameNumber, m_Interpreter, last, freed, lastBound, minted,
          registered

vars == <<m_InstanceMap, m_AddressToNameMap, m_DeleteFunctionMap,
          m_TempNameNumber, m_Interpreter, last, freed, lastBound, minted,
          registered>>

(***************************************************************************)
(* Bounds and input sets.                                                  *)
(***************************************************************************)
\* CreateTemporary is called while the counter is below MaxTemp.
MaxTemp == 2
\* Depth to which a delete function's notification may nest.
MaxReenter == 1

\* Names a caller passes: an ordinary one and one with the reserved prefix.
UserNames == {"a", "__temp0"}
Addresses == {"p1", "p2"}
Types == {"TypeX", "TypeY"}
\* The object at p1 is a TypeX, the object at p2 a TypeY.
TypeOf(object) == IF object = "p1" THEN "TypeX" ELSE "TypeY"
\* deletePlain only frees; deleteNotifying frees an object whose own
\* cleanup makes the DeleteCallBack on the table.
DeleteFunctions == {"deletePlain", "deleteNotifying"}
\* The (type, function) pairs the binding code registers.
Registrations == {<<"TypeX", "deletePlain">>, <<"TypeX", "deleteNotifying">>,
                  <<"TypeY", "deletePlain">>}

NoException == "none"
UndefinedInstanceName == "UndefinedInstanceName"
UndefinedObjectType == "UndefinedObjectType"

\* A default-constructed Reference (what std::map::operator[] inserts).
NullReference == [object |-> "NULL", type |-> "NULL"]
Reference(object, type) == [object |-> object, type |-> type]

(***************************************************************************)
(* std::map and std::string primitives.                                    *)
(***************************************************************************)
Min(a, b) == IF a < b THEN a ELSE b

\* std::map::count(k)
MapCount(m, k) == IF k \in DOMAIN m THEN 1 ELSE 0

\* std::map::operator[](k): inserts a default value when k is absent.
MapIndex(m, k, dflt) ==
  IF k \in DOMAIN m THEN m ELSE [x \in DOMAIN m \cup {k} |-> IF x = k THEN dflt ELSE m[x]]

\* m[k] = v
MapAssign(m, k, v) == [x \in DOMAIN m \cup {k} |-> IF x = k THEN v ELSE m[x]]

\* std::map::erase(k)
MapErase(m, k) == [x \in DOMAIN m \ {k} |-> m[x]]

EmptyMap == [x \in {} |-> x]

\* std::string::substr(pos, n)
substr(s, pos, n) == SubSeq(s, pos + 1, Min(pos + n, Len(s)))

HexDigit == <<"0", "1", "2", "3", "4", "5", "6", "7",
              "8", "9", "a", "b", "c", "d", "e", "f">>

\* printf's %x conversion.
RECURSIVE FormatHex(_)
FormatHex(n) ==
  IF n < 16 THEN HexDigit[n + 1]
  ELSE FormatHex(n \div 16) \o HexDigit[(n % 16) + 1]

\* sprintf(tempName, "__temp%x", n)
TempName(n) == "__temp" \o FormatHex(n)

\* Every name the model uses: the callers' and the ones the table can mint.
Names == UserNames \cup {TempName(n) : n \in 0..(MaxTemp - 1)}

(***************************************************************************)
(* The table as a record, and the trace of a call.                         *)
(***************************************************************************)
Self == [im |-> m_InstanceMap, a2n |-> m_AddressToNameMap,
         dfm |-> m_DeleteFunctionMap, tmp |-> m_TempNameNumber,
         interp |-> m_Interpreter, exc |-> NoException, ev |-> <<>>,
         ret |-> "-"]

Log(t, e) == [t EXCEPT !.ev = Append(@, e)]

Throw(t, e) == [t EXCEPT !.exc = e]

Return(t, v) == [t EXCEPT !.ret = v]

EvEraseAddress(object) == [kind |-> "m_AddressToNameMap.erase", name |-> "-", object |-> object, type |-> "-", fn |-> "-"]
EvDelete(fn, object) == [kind |-> "delete", name |-> "-", object |-> object, type |-> "-", fn |-> fn]
EvEraseName(name) == [kind |-> "m_InstanceMap.erase", name |-> name, object |-> "-", type |-> "-", fn |-> "-"]
EvDeleteCommand(name) == [kind |-> "Tcl_DeleteCommand", name |-> name, object |-> "-", type |-> "-", fn |-> "-"]
EvSetName(name, object, type) == [kind |-> "m_InstanceMap.set", name |-> name, object |-> object, type |-> type, fn |-> "-"]
EvSetAddress(object, name) == [kind |-> "m_AddressToNameMap.set", name |-> name, object |-> object, type |-> "-", fn |-> "-"]
EvCallBack(object) == [kind |-> "DeleteCallBack", name |-> "-", object |-> object, type |-> "-", fn |-> "-"]

(***************************************************************************)
(* InstanceTable member functions.                                         *)
(***************************************************************************)
Exists(t, name) == MapCount(t.im, name) > 0

CheckExists(t, name) ==
  IF ~Exists(t, name) THEN Throw(t, UndefinedInstanceName) ELSE t

RECURSIVE DeleteObject(_, _, _)
RECURSIVE DeleteCallBack(_, _, _)
RECURSIVE CallDeleteFunction(_, _, _, _)

\* m_DeleteFunctionMap[type](object): the registered function destroys the
\* object; the cleanup of an object deleted by deleteNotifying makes the
\* DeleteCallBack on the table from inside the call.
CallDeleteFunction(t, fn, object, depth) ==
  LET t1 == Log(t, EvDelete(fn, object))
  IN IF fn = "deleteNotifying" /\ depth < MaxReenter
       THEN DeleteCallBack(Log(t1, EvCallBack(object)), object, depth + 1)
       ELSE t1

\* DeleteObject with the address erased ahead of the delete function check.
DeleteObject_EraseBeforeCheck(t, name, depth) ==
  LET t1 == CheckExists(t, name)
  IN IF t1.exc # NoException THEN t1 ELSE
     LET t2 == [t1 EXCEPT !.im = MapIndex(@, name, NullReference)]
         type == t2.im[name].type
         object == t2.im[name].object
         t3 == Log([t2 EXCEPT !.a2n = MapErase(@, object)], EvEraseAddress(object))
     IN IF MapCount(t3.dfm, type) < 1 THEN Throw(t3, UndefinedObjectType) ELSE
        LET t4 == CallDeleteFunction(t3, t3.dfm[type], object, depth)
        IN IF t4.exc # NoException THEN t4 ELSE
           LET t5 == Log([t4 EXCEPT !.im = MapErase(@, name)], EvEraseName(name))
           IN Log([t5 EXCEPT !.interp = @ \ {name}], EvDeleteCommand(name))

\* DeleteObject without the CheckExists call.
DeleteObject_NoCheckExists(t, name, depth) ==
  LET t2 == [t EXCEPT !.im = MapIndex(@, name, NullReference)]
      type == t2.im[name].type
      object == t2.im[name].object
  IN IF MapCount(t2.dfm, type) < 1 THEN Throw(t2, UndefinedObjectType) ELSE
     LET t3 == Log([t2 EXCEPT !.a2n = MapErase(@, object)], EvEraseAddress(object))
         t4 == CallDeleteFunction(t3, t3.dfm[type], object, depth)
     IN IF t4.exc # NoException THEN t4 ELSE
        LET t5 == Log([t4 EXCEPT !.im = MapErase(@, name)], EvEraseName(name))
        IN Log([t5 EXCEPT !.interp = @ \ {name}], EvDeleteCommand(name))

\* DeleteObject that leaves the address in the address map.
DeleteObject_KeepAddress(t, name, depth) ==
  LET t1 == CheckExists(t, name)
  IN IF t1.exc # NoException THEN t1 ELSE
     LET t2 == [t1 EXCEPT !.im = MapIndex(@, name, NullReference)]
         type == t2.im[name].type
         object == t2.im[name].object
     IN IF MapCount(t2.dfm, type) < 1 THEN Throw(t2, UndefinedObjectType) ELSE
        LET t4 == CallDeleteFunction(t2, t2.dfm[type], object, depth)
        IN IF t4.exc # NoException THEN t4 ELSE
           LET t5 == Log([t4 EXCEPT !.im = MapErase(@, name)], EvEraseName(name))
           IN Log([t5 EXCEPT !.interp = @ \ {name}], EvDeleteCommand(name))

\* DeleteObject that deletes the Tcl command before the delete function check.
DeleteObject_CommandBeforeCheck(t, name, depth) ==
  LET t1 == CheckExists(t, name)
  IN IF t1.exc # NoException THEN t1 ELSE
     LET t2 == [t1 EXCEPT !.im = MapIndex(@, name, NullReference)]
         type == t2.im[name].type
         object == t2.im[name].object
         tc == Log([t2 EXCEPT !.interp = @ \ {name}], EvDeleteCommand(name))
     IN IF MapCount(tc.dfm, type) < 1 THEN Throw(tc, UndefinedObjectType) ELSE
        LET t3 == Log([tc EXCEPT !.a2n = MapErase(@, object)], EvEraseAddress(object))
            t4 == CallDeleteFunction(t3, t3.dfm[type], object, depth)
        IN IF t4.exc # NoException THEN t4 ELSE
           Log([t4 EXCEPT !.im = MapErase(@, name)], EvEraseName(name))

\* DeleteObject that erases the address after the delete function returns.
DeleteObject_EraseAfterDelete(t, name, depth) ==
  LET t1 == CheckExists(t, name)
  IN IF t1.exc # NoException THEN t1 ELSE
     LET t2 == [t1 EXCEPT !.im = MapIndex(@, name, NullReference)]
         type == t2.im[name].type
         object == t2.im[name].object
     IN IF MapCount(t2.dfm, type) < 1 THEN Throw(t2, UndefinedObjectType) ELSE
        LET t4 == CallDeleteFunction(t2, t2.dfm[type], object, depth)
        IN IF t4.exc # NoException THEN t4 ELSE
           LET t3 == Log([t4 EXCEPT !.a2n = MapErase(@, object)], EvEraseAddress(object))
               t5 == Log([t3 EXCEPT !.im = MapErase(@, name)], EvEraseName(name))
           IN Log([t5 EXCEPT !.interp = @ \ {name}], EvDeleteCommand(name))

DeleteObject(t, name, depth) ==
  LET t1 == CheckExists(t, name)
  IN IF t1.exc # NoException THEN t1 ELSE
     LET t2 == [t1 EXCEPT !.im = MapIndex(@, name, NullReference)]
         type == t2.im[name].type
         object == t2.im[name].object
     IN IF MapCount(t2.dfm, type) < 1 THEN Throw(t2, UndefinedObjectType) ELSE
        LET t3 == Log([t2 EXCEPT !.a2n = MapErase(@, object)], EvEraseAddress(object))
            t4 == CallDeleteFunction(t3, t3.dfm[type], object, depth)
        IN IF t4.exc # NoException THEN t4 ELSE
           LET t5 == Log([t4 EXCEPT !.im = MapErase(@, name)], EvEraseName(name))
           IN Log([t5 EXCEPT !.interp = @ \ {name}], EvDeleteCommand(name))

\* DeleteCallBack without the count test: operator[] on an absent address.
DeleteCallBack_NoCount(t, object, depth) ==
  LET t1 == [t EXCEPT !.a2n = MapIndex(@, object, "")]
      name == t1.a2n[object]
  IN DeleteObject(t1, name, depth)

DeleteCallBack(t, object, depth) ==
  IF MapCount(t.a2n, object) > 0
    THEN LET t1 == [t EXCEPT !.a2n = MapIndex(@, object, "")]
             name == t1.a2n[object]
         IN DeleteObject(t1, name, depth)
    ELSE t

\* SetObject that overwrites the entry without deleting the prior instance.
SetObject_NoDelete(t, name, object, type) ==
  LET t2 == Log([t EXCEPT !.im = MapAssign(@, name, Reference(object, type))],
                EvSetName(name, object, type))
  IN Log([t2 EXCEPT !.a2n = MapAssign(@, object, name)], EvSetAddress(object, name))

\* SetObject that swallows the exception of DeleteObject and stores anyway.
SetObject_StoreAnyway(t, name, object, type) ==
  LET t1 == IF Exists(t, name) THEN DeleteObject(t, name, 0) ELSE t
      t2 == Log([t1 EXCEPT !.im = MapAssign(@, name, Reference(object, type))],
                EvSetName(name, object, type))
  IN Log([t2 EXCEPT !.a2n = MapAssign(@, object, name)], EvSetAddress(object, name))

\* SetObject that records the address before deleting the prior instance.
SetObject_AddressBeforeDelete(t, name, object, type) ==
  LET t0 == Log([t EXCEPT !.a2n = MapAssign(@, object, name)], EvSetAddress(object, name))
      t1 == IF Exists(t0, name) THEN DeleteObject(t0, name, 0) ELSE t0
  IN IF t1.exc # NoException THEN t1 ELSE
     Log([t1 EXCEPT !.im = MapAssign(@, name, Reference(object, type))],
         EvSetName(name, object, type))

SetObject(t, name, object, type) ==
  LET t1 == IF Exists(t, name) THEN DeleteObject(t, name, 0) ELSE t
  IN IF t1.exc # NoException THEN t1 ELSE
     LET t2 == Log([t1 EXCEPT !.im = MapAssign(@, name, Reference(object, type))],
                   EvSetName(name, object, type))
     IN Log([t2 EXCEPT !.a2n = MapAssign(@, object, name)], EvSetAddress(object, name))

\* Exists as a call: the table with the answer as its return value.
ExistsCall(t, name) == Return(t, Exists(t, name))

GetEntry(t, name) ==
  LET t1 == CheckExists(t, name)
  IN IF t1.exc # NoException THEN t1 ELSE Return(t1, t1.im[name])

\* GetObject without the CheckExists call.
GetObject_NoCheckExists(t, name) ==
  LET t2 == [t EXCEPT !.im = MapIndex(@, name, NullReference)]
  IN Return(t2, t2.im[name].object)

GetObject(t, name) ==
  LET t1 == CheckExists(t, name)
  IN IF t1.exc # NoException THEN t1 ELSE
     LET t2 == [t1 EXCEPT !.im = MapIndex(@, name, NullReference)]
     IN Return(t2, t2.im[name].object)

GetType(t, name) ==
  LET t1 == CheckExists(t, name)
  IN IF t1.exc # NoException THEN t1 ELSE
     LET t2 == [t1 EXCEPT !.im = MapIndex(@, name, NullReference)]
     IN Return(t2, t2.im[name].type)

\* SetDeleteFunction with std::map::insert: an existing entry is kept.
SetDeleteFunction_KeepExisting(t, type, func) ==
  IF MapCount(t.dfm, type) > 0 THEN t
  ELSE [t EXCEPT !.dfm = MapAssign(@, type, func)]

SetDeleteFunction(t, type, func) ==
  [t EXCEPT !.dfm = MapAssign(@, type, func)]

\* CreateTemporary that formats the counter without incrementing it.
CreateTemporary_NoIncrement(t, object, type) ==
  LET name == TempName(t.tmp)
      t2 == SetObject(t, name, object, type)
  IN IF t2.exc # NoException THEN t2 ELSE Return(t2, name)

\* CreateTemporary that increments m_TempNameNumber only when SetObject returns.
CreateTemporary_IncrementOnReturn(t, object, type) ==
  LET name == TempName(t.tmp)
      t2 == SetObject(t, name, object, type)
  IN IF t2.exc # NoException THEN t2
     ELSE Return([t2 EXCEPT !.tmp = @ + 1], name)

CreateTemporary(t, object, type) ==
  LET name == TempName(t.tmp)
      t1 == [t EXCEPT !.tmp = @ + 1]
      t2 == SetObject(t1, name, object, type)
  IN IF t2.exc # NoException THEN t2 ELSE Return(t2, name)

\* DeleteIfTemporary without the CheckExists call.
DeleteIfTemporary_NoCheckExists(t, name) ==
  IF substr(name, 0, 6) = "__temp" THEN DeleteObject(t, name, 0) ELSE t

DeleteIfTemporary(t, name) ==
  LET t1 == CheckExists(t, name)
  IN IF t1.exc # NoException THEN t1 ELSE
     IF substr(name, 0, 6) = "__temp" THEN DeleteObject(t1, name, 0) ELSE t1

\* The generated binding code creates the Tcl command of an instance next
\* to a SetObject or CreateTemporary that succeeded; the table itself never
\* creates one.
CreateCommand(t, name) ==
  IF t.exc = NoException THEN [t EXCEPT !.interp = @ \cup {name}] ELSE t

(***************************************************************************)
(* History: the last call; the addresses that were passed to a delete      *)
(* function and have not been bound since; for each name, the arguments of *)
(* the most recent SetObject or CreateTemporary that succeeded on it, kept *)
(* until the name is erased; the names CreateTemporary has returned; for    *)
(* each type, the function of the most recent SetDeleteFunction call.      *)
(***************************************************************************)
RECURSIVE FreedAfter(_, _)
FreedAfter(f, ev) ==
  IF ev = <<>> THEN f
  ELSE LET e == Head(ev)
       IN FreedAfter(IF e.kind = "delete" THEN f \cup {e.object}
                     ELSE IF e.kind = "m_InstanceMap.set" THEN f \ {e.object}
                     ELSE f,
                     Tail(ev))

RECURSIVE ErasedNames(_)
ErasedNames(ev) ==
  IF ev = <<>> THEN {}
  ELSE (IF Head(ev).kind = "m_InstanceMap.erase" THEN {Head(ev).name} ELSE {})
         \cup ErasedNames(Tail(ev))

BoundAfter(b, op, name, object, type, r) ==
  LET kept == [n \in DOMAIN b \ ErasedNames(r.ev) |-> b[n]]
  IN IF op \in {"SetObject", "CreateTemporary"} /\ r.exc = NoException
       THEN MapAssign(kept, name, Reference(object, type))
       ELSE kept

MintedAfter(m, op, r) ==
  IF op = "CreateTemporary" /\ r.exc = NoException THEN m \cup {r.ret} ELSE m

RegisteredAfter(g, op, type, fn, r) ==
  IF op = "SetDeleteFunction" /\ r.exc = NoException
    THEN MapAssign(g, type, fn) ELSE g

Call(op, name, object, type, fn, r) ==
  [op |-> op, name |-> name, object |-> object, type |-> type, fn |-> fn,
   exc |-> r.exc, ev |-> r.ev, ret |-> r.ret]

Commit(op, name, object, type, fn, r) ==
  /\ m_InstanceMap' = r.im
  /\ m_AddressToNameMap' = r.a2n
  /\ m_DeleteFunctionMap' = r.dfm
  /\ m_TempNameNumber' = r.tmp
  /\ m_Interpreter' = r.interp
  /\ last' = Call(op, name, object, type, fn, r)
  /\ freed' = FreedAfter(freed, r.ev)
  /\ lastBound' = BoundAfter(lastBound, op, name, object, type, r)
  /\ minted' = MintedAfter(minted, op, r)
  /\ registered' = RegisteredAfter(registered, op, type, fn, r)

(***************************************************************************)
(* Initial state (the constructor) and one action per entry point.         *)
(***************************************************************************)
Init ==
  /\ m_InstanceMap = EmptyMap
  /\ m_AddressToNameMap = EmptyMap
  /\ m_DeleteFunctionMap = EmptyMap
  /\ m_TempNameNumber = 0
  /\ m_Interpreter = {}
  /\ last = [op |-> "InstanceTable", name |-> "-", object |-> "-", type |-> "-",
             fn |-> "-", exc |-> NoException, ev |-> <<>>, ret |-> "-"]
  /\ freed = {}
  /\ lastBound = EmptyMap
  /\ minted = {}
  /\ registered = EmptyMap

\* Bind
DoSetObject ==
  \E name \in UserNames, object \in Addresses :
    Commit("SetObject", name, object, TypeOf(object), "-",
           CreateCommand(SetObject(Self, name, object, TypeOf(object)), name))

\* Destroy
DoDeleteObject ==
  \E name \in Names :
    Commit("DeleteObject", name, "-", "-", "-", DeleteObject(Self, name, 0))

DoExists ==
  \E name \in UserNames :
    Commit("Exists", name, "-", "-", "-", ExistsCall(Self, name))

\* Lookup
DoGetEntry ==
  \E name \in UserNames :
    Commit("GetEntry", name, "-", "-", "-", GetEntry(Self, name))

DoGetObject ==
  \E name \in UserNames :
    Commit("GetObject", name, "-", "-", "-", GetObject(Self, name))

DoGetType ==
  \E name \in UserNames :
    Commit("GetType", name, "-", "-", "-", GetType(Self, name))

\* RegisterDeleter
DoSetDeleteFunction ==
  \E reg \in Registrations :
    Commit("SetDeleteFunction", "-", "-", reg[1], reg[2],
           SetDeleteFunction(Self, reg[1], reg[2]))

DoCreateTemporary ==
  /\ m_TempNameNumber < MaxTemp
  /\ \E object \in Addresses :
       Commit("CreateTemporary", TempName(m_TempNameNumber), object,
              TypeOf(object), "-",
              CreateCommand(CreateTemporary(Self, object, TypeOf(object)),
                            TempName(m_TempNameNumber)))

DoDeleteIfTemporary ==
  \E name \in Names :
    Commit("DeleteIfTemporary", name, "-", "-", "-",
           DeleteIfTemporary(Self, name))

\* NotifyExternalDestruction
DoDeleteCallBack ==
  \E object \in Addresses :
    Commit("DeleteCallBack", "-", object, "-", "-",
           DeleteCallBack(Self, object, 0))

Next ==
  \/ DoSetObject
  \/ DoDeleteObject
  \/ DoExists
  \/ DoGetEntry
  \/ DoGetObject
  \/ DoGetType
  \/ DoSetDeleteFunction
  \/ DoCreateTemporary
  \/ DoDeleteIfTemporary
  \/ DoDeleteCallBack

Spec == Init /\ [][Next]_vars

(***************************************************************************)
(* Reading the trace of a call.                                            *)
(***************************************************************************)
Steps(ev, kind) == {i \in DOMAIN ev : ev[i].kind = kind}

NumDeletes(ev) == Cardinality(Steps(ev, "delete"))

NumDeleteCommands(ev) == Cardinality(Steps(ev, "Tcl_DeleteCommand"))

\* The table proper: everything but the history variables.
table == <<m_InstanceMap, m_AddressToNameMap, m_DeleteFunctionMap,
           m_TempNameNumber, m_Interpreter>>

(***************************************************************************)
(* C1.  A delete function is never invoked on an address that was already  *)
(* passed to a delete function and not bound again since, and the function *)
(* invoked is the one registered for the type the object is bound with.    *)
(* Every delete step of a call is on an address that is not in freed and   *)
(* that no earlier step of the same call deleted, and some name bound      *)
(* before the call holds that address with a type whose registered         *)
(* function is the one invoked.                                            *)
(***************************************************************************)
C1_DeletedOnceTypeCorrect ==
  [][\A i \in Steps(last'.ev, "delete") :
       LET e == last'.ev[i]
       IN /\ e.object \notin freed
          /\ \A j \in Steps(last'.ev, "delete") : j < i => last'.ev[j].object # e.object
          /\ \E n \in DOMAIN m_InstanceMap :
               /\ m_InstanceMap[n].object = e.object
               /\ m_InstanceMap[n].type \in DOMAIN m_DeleteFunctionMap
               /\ m_DeleteFunctionMap[m_InstanceMap[n].type] = e.fn]_vars

(***************************************************************************)
(* C2.  DeleteCallBack(object) on an address a bound name owns invokes no  *)
(* delete function: a call that returns has only erased the name from the  *)
(* instance map and the address from the address map, and deleted the Tcl  *)
(* command of the name.                                                    *)
(***************************************************************************)
C2_CallBackInvokesNoDeleter ==
  [][(last'.op = "DeleteCallBack" /\ last'.object \in DOMAIN m_AddressToNameMap) =>
       LET name == m_AddressToNameMap[last'.object]
       IN /\ NumDeletes(last'.ev) = 0
          /\ last'.exc = NoException =>
               /\ m_InstanceMap' = MapErase(m_InstanceMap, name)
               /\ m_AddressToNameMap' = MapErase(m_AddressToNameMap, last'.object)
               /\ \E i \in DOMAIN last'.ev : last'.ev[i] = EvDeleteCommand(name)]_vars

(***************************************************************************)
(* C3.  DeleteCallBack(object) never throws, and when a bound name owns    *)
(* the object, afterwards the name is unbound and the address is not a key *)
(* of the address map, whether or not the type has a delete function.      *)
(***************************************************************************)
C3_CallBackNeverFails ==
  [][last'.op = "DeleteCallBack" =>
       /\ last'.exc = NoException
       /\ last'.object \in DOMAIN m_AddressToNameMap =>
            /\ m_AddressToNameMap[last'.object] \notin DOMAIN m_InstanceMap'
            /\ last'.object \notin DOMAIN m_AddressToNameMap']_vars

(***************************************************************************)
(* C4.  DeleteObject(name) on a bound name whose type has no delete        *)
(* function throws UndefinedObjectType and changes nothing: the name still *)
(* exists, GetObject and GetType return what they returned before, an      *)
(* address map entry from the object to the name is still there, no delete *)
(* function is invoked and no Tcl command is deleted.                      *)
(***************************************************************************)
C4_DestroyWithoutDeleterFails ==
  [][(/\ last'.op = "DeleteObject"
      /\ last'.name \in DOMAIN m_InstanceMap
      /\ m_InstanceMap[last'.name].type \notin DOMAIN m_DeleteFunctionMap) =>
       LET name == last'.name
           object == m_InstanceMap[name].object
       IN /\ last'.exc = UndefinedObjectType
          /\ table' = table
          /\ Exists(Self', name)
          /\ GetObject(Self', name).ret = object
          /\ GetType(Self', name).ret = m_InstanceMap[name].type
          /\ (object \in DOMAIN m_AddressToNameMap /\ m_AddressToNameMap[object] = name) =>
               (object \in DOMAIN m_AddressToNameMap' /\ m_AddressToNameMap'[object] = name)
          /\ last'.ev = <<>>]_vars

C4_Witness ==
  /\ last.op = "DeleteObject"
  /\ last.exc = UndefinedObjectType
  /\ last.name \in DOMAIN m_InstanceMap
  /\ m_InstanceMap[last.name].type \notin DOMAIN m_DeleteFunctionMap
  /\ m_InstanceMap[last.name].object \in DOMAIN m_AddressToNameMap

(***************************************************************************)
(* C5.  DeleteObject(name) on an unbound name throws UndefinedInstanceName *)
(* (the existence check comes before the delete function check) and leaves *)
(* the instance map, the address map, the delete function map and the      *)
(* counter unchanged; no entry for the name appears in the instance map.   *)
(***************************************************************************)
C5_DestroyUnboundFails ==
  [][(last'.op = "DeleteObject" /\ last'.name \notin DOMAIN m_InstanceMap) =>
       /\ last'.exc = UndefinedInstanceName
       /\ table' = table
       /\ last'.name \notin DOMAIN m_InstanceMap'
       /\ last'.ev = <<>>]_vars

C5_Witness ==
  /\ last.op = "DeleteObject"
  /\ last.exc = UndefinedInstanceName
  /\ last.name \notin DOMAIN m_InstanceMap
  /\ DOMAIN m_InstanceMap # {}

(***************************************************************************)
(* C6.  DeleteObject(name) on a bound name whose type has a delete         *)
(* function invokes that function exactly once, on the bound object;       *)
(* afterwards the name does not exist and the object's address is not a    *)
(* key of the address map.                                                 *)
(***************************************************************************)
C6_DestroyDeletesOnce ==
  [][(/\ last'.op = "DeleteObject"
      /\ last'.name \in DOMAIN m_InstanceMap
      /\ m_InstanceMap[last'.name].type \in DOMAIN m_DeleteFunctionMap) =>
       LET name == last'.name
           ref == m_InstanceMap[name]
       IN /\ last'.exc = NoException
          /\ NumDeletes(last'.ev) = 1
          /\ \A i \in Steps(last'.ev, "delete") :
               last'.ev[i] = EvDelete(m_DeleteFunctionMap[ref.type], ref.object)
          /\ ~Exists(Self', name)
          /\ MapCount(m_AddressToNameMap', ref.object) = 0]_vars

C6_Witness ==
  /\ last.op = "DeleteObject"
  /\ last.exc = NoException
  /\ NumDeletes(last.ev) = 1
  /\ last.name \notin DOMAIN m_InstanceMap

(***************************************************************************)
(* C7.  SetObject(name, object, type) on a name bound to an instance whose *)
(* type has a delete function invokes that function exactly once, on the   *)
(* prior object, before the new Reference is stored; afterwards GetObject  *)
(* and GetType return the new object and type, the address map takes the   *)
(* new object to the name, and the prior object's address, when it differs *)
(* from the new one, is not a key of the address map.                      *)
(***************************************************************************)
C7_RebindDeletesPriorFirst ==
  [][(/\ last'.op = "SetObject"
      /\ last'.name \in DOMAIN m_InstanceMap
      /\ m_InstanceMap[last'.name].type \in DOMAIN m_DeleteFunctionMap) =>
       LET name == last'.name
           prior == m_InstanceMap[name]
           ev == last'.ev
       IN /\ last'.exc = NoException
          /\ NumDeletes(ev) = 1
          /\ \A i \in Steps(ev, "delete") :
               /\ ev[i] = EvDelete(m_DeleteFunctionMap[prior.type], prior.object)
               /\ \A j \in Steps(ev, "m_InstanceMap.set") : i < j
          /\ \E j \in Steps(ev, "m_InstanceMap.set") :
               ev[j] = EvSetName(name, last'.object, last'.type)
          /\ GetObject(Self', name).ret = last'.object
          /\ GetType(Self', name).ret = last'.type
          /\ MapCount(m_AddressToNameMap', last'.object) = 1
          /\ m_AddressToNameMap'[last'.object] = name
          /\ prior.object # last'.object =>
               MapCount(m_AddressToNameMap', prior.object) = 0]_vars

C7_Witness ==
  /\ last.op = "SetObject"
  /\ last.exc = NoException
  /\ NumDeletes(last.ev) = 1
  /\ \E i \in Steps(last.ev, "delete") : last.ev[i].object # last.object
  /\ m_InstanceMap[last.name] = Reference(last.object, last.type)

(***************************************************************************)
(* C8.  SetObject(name, object, type) on a name bound to an instance whose *)
(* type has no delete function throws UndefinedObjectType, stores nothing, *)
(* and leaves the instance map and the address map as they were: GetObject *)
(* and GetType still return the prior object and type and the new object's *)
(* address is not added to the address map.                                *)
(***************************************************************************)
C8_RebindWithoutDeleterFails ==
  [][(/\ last'.op = "SetObject"
      /\ last'.name \in DOMAIN m_InstanceMap
      /\ m_InstanceMap[last'.name].type \notin DOMAIN m_DeleteFunctionMap) =>
       LET name == last'.name
           prior == m_InstanceMap[name]
       IN /\ last'.exc = UndefinedObjectType
          /\ m_InstanceMap' = m_InstanceMap
          /\ m_AddressToNameMap' = m_AddressToNameMap
          /\ GetObject(Self', name).ret = prior.object
          /\ GetType(Self', name).ret = prior.type
          /\ MapCount(m_AddressToNameMap, last'.object) = 0 =>
               MapCount(m_AddressToNameMap', last'.object) = 0
          /\ Steps(last'.ev, "m_InstanceMap.set") = {}]_vars

C8_Witness ==
  /\ last.op = "SetObject"
  /\ last.exc = UndefinedObjectType
  /\ last.name \in DOMAIN m_InstanceMap
  /\ m_InstanceMap[last.name].object # last.object
  /\ MapCount(m_AddressToNameMap, last.object) = 0

(***************************************************************************)
(* C9.  In every state, for every name that exists, GetEntry, GetObject    *)
(* and GetType return the object and type of the most recent SetObject or  *)
(* CreateTemporary that succeeded on the name, and for every name that     *)
(* does not exist they throw UndefinedInstanceName; Exists, GetEntry,      *)
(* GetObject and GetType change neither map, nor the delete function map,  *)
(* nor the counter.                                                        *)
(***************************************************************************)
C9_LookupState ==
  \A n \in Names :
    IF Exists(Self, n)
      THEN /\ n \in DOMAIN lastBound
           /\ GetEntry(Self, n).exc = NoException
           /\ GetEntry(Self, n).ret = lastBound[n]
           /\ GetObject(Self, n).exc = NoException
           /\ GetObject(Self, n).ret = lastBound[n].object
           /\ GetType(Self, n).exc = NoException
           /\ GetType(Self, n).ret = lastBound[n].type
      ELSE /\ GetEntry(Self, n).exc = UndefinedInstanceName
           /\ GetObject(Self, n).exc = UndefinedInstanceName
           /\ GetType(Self, n).exc = UndefinedInstanceName

C9_LookupReturnsLastBound ==
  /\ []C9_LookupState
  /\ [][last'.op \in {"Exists", "GetEntry", "GetObject", "GetType"} =>
          table' = table]_vars

C9_Witness ==
  /\ last.op = "GetObject"
  /\ last.exc = NoException
  /\ last.ret = "p2"
  /\ "p1" \in freed
  /\ \E n \in Names : ~Exists(Self, n)

(***************************************************************************)
(* C10.  Every name CreateTemporary returns differs from every name it     *)
(* returned before and begins with "__temp"; right after the call          *)
(* GetObject and GetType of the name return the object and type given to   *)
(* the call, and a returned name keeps resolving to the same Reference     *)
(* over every call that does not erase it; the counter never decreases.    *)
(***************************************************************************)
C10_TemporaryNamesDistinct ==
  [][/\ (last'.op = "CreateTemporary" /\ last'.exc = NoException) =>
          /\ last'.ret \notin minted
          /\ substr(last'.ret, 0, 6) = "__temp"
          /\ GetObject(Self', last'.ret).exc = NoException
          /\ GetObject(Self', last'.ret).ret = last'.object
          /\ GetType(Self', last'.ret).ret = last'.type
     /\ \A n \in minted :
          (Exists(Self, n) /\ n \notin ErasedNames(last'.ev)) =>
            /\ GetEntry(Self', n).exc = NoException
            /\ GetEntry(Self', n).ret = GetEntry(Self, n).ret
     /\ m_TempNameNumber' >= m_TempNameNumber]_vars

C10_Witness ==
  /\ last.op = "CreateTemporary"
  /\ last.exc = NoException
  /\ Cardinality(minted) = 2
  /\ \A n \in minted : Exists(Self, n)

\* The table a call result r leaves behind.
TableOf(r) == <<r.im, r.a2n, r.dfm, r.tmp, r.interp>>

(***************************************************************************)
(* C11.  DeleteIfTemporary(name) throws UndefinedInstanceName and changes  *)
(* nothing when the name does not exist; when the name exists and begins   *)
(* with "__temp" (whoever bound it) it leaves the table, the exception and *)
(* the trace of steps that DeleteObject(name) leaves from the same state;  *)
(* otherwise it changes nothing, throws nothing and the name stays bound.  *)
(***************************************************************************)
C11_DeleteIfTemporaryIsDestroyOfPrefixed ==
  [][last'.op = "DeleteIfTemporary" =>
       LET name == last'.name
       IN IF ~Exists(Self, name)
            THEN /\ last'.exc = UndefinedInstanceName
                 /\ table' = table
                 /\ last'.ev = <<>>
            ELSE IF SubSeq(name, 1, Min(6, Len(name))) = "__temp"
              THEN LET r == DeleteObject(Self, name, 0)
                   IN /\ table' = TableOf(r)
                      /\ last'.exc = r.exc
                      /\ last'.ev = r.ev
              ELSE /\ last'.exc = NoException
                   /\ table' = table
                   /\ last'.ev = <<>>
                   /\ Exists(Self', name)]_vars

C11_Witness ==
  /\ last.op = "DeleteIfTemporary"
  /\ last.name = "__temp0"
  /\ "__temp0" \notin minted
  /\ last.exc = NoException
  /\ NumDeletes(last.ev) = 1
  /\ ~Exists(Self, "__temp0")
  /\ Exists(Self, "a")

(***************************************************************************)
(* C12.  DeleteCallBack(object) on an address that is not a key of the     *)
(* address map throws nothing, invokes no delete function, deletes no Tcl  *)
(* command and leaves the instance map and the address map unchanged: the  *)
(* lookup inserts no address map entry.                                    *)
(***************************************************************************)
C12_CallBackOfUnknownAddressIsNoOp ==
  [][(last'.op = "DeleteCallBack" /\ MapCount(m_AddressToNameMap, last'.object) = 0) =>
       /\ last'.exc = NoException
       /\ last'.ev = <<>>
       /\ m_InstanceMap' = m_InstanceMap
       /\ m_AddressToNameMap' = m_AddressToNameMap
       /\ MapCount(m_AddressToNameMap', last'.object) = 0
       /\ m_Interpreter' = m_Interpreter]_vars

C12_Witness ==
  /\ last.op = "DeleteCallBack"
  /\ last.exc = NoException
  /\ last.ev = <<>>
  /\ MapCount(m_AddressToNameMap, last.object) = 0
  /\ DOMAIN m_AddressToNameMap # {}

(***************************************************************************)
(* C13.  Tcl_DeleteCommand is called exactly once, with the name, by every *)
(* call that completes a destruction: a DeleteObject that returns, a       *)
(* SetObject or CreateTemporary that returns on a name that existed, a     *)
(* DeleteIfTemporary that returns on a name beginning with "__temp", a     *)
(* DeleteCallBack that returns on an address in the address map.  No other *)
(* call makes it: not one that throws, not Exists, GetEntry, GetObject,    *)
(* GetType or SetDeleteFunction, not SetObject on a name that did not      *)
(* exist.                                                                  *)
(***************************************************************************)
\* The names whose destruction the call recorded in last' has completed.
Destroyed ==
  LET op == last'.op
      name == last'.name
  IN IF last'.exc # NoException THEN {}
     ELSE IF op = "DeleteObject" THEN {name}
     ELSE IF op \in {"SetObject", "CreateTemporary"}
       THEN (IF name \in DOMAIN m_InstanceMap THEN {name} ELSE {})
     ELSE IF op = "DeleteIfTemporary"
       THEN (IF SubSeq(name, 1, Min(6, Len(name))) = "__temp" THEN {name} ELSE {})
     ELSE IF op = "DeleteCallBack"
       THEN (IF last'.object \in DOMAIN m_AddressToNameMap
               THEN {m_AddressToNameMap[last'.object]} ELSE {})
     ELSE {}

C13_CommandDeletedOncePerDestruction ==
  [][/\ NumDeleteCommands(last'.ev) = Cardinality(Destroyed)
     /\ \A i \in Steps(last'.ev, "Tcl_DeleteCommand") :
          last'.ev[i].name \in Destroyed]_vars

C13_Witness ==
  /\ last.op = "DeleteCallBack"
  /\ last.exc = NoException
  /\ NumDeleteCommands(last.ev) = 1
  /\ Steps(last.ev, "DeleteCallBack") # {}

(***************************************************************************)
(* C14.  Between calls, no Tcl command exists for a name bound to an       *)
(* object that was passed to a delete function, or whose destruction the   *)
(* last DeleteCallBack reported, and that has not been bound again.        *)
(***************************************************************************)
C14_NoCommandForDestroyedObject ==
  \A n \in m_Interpreter :
    n \in DOMAIN m_InstanceMap =>
      /\ m_InstanceMap[n].object \notin freed
      /\ ~(last.op = "DeleteCallBack" /\ last.object = m_InstanceMap[n].object)

(***************************************************************************)
(* C16.  Between calls, for every name in the instance map with object o,  *)
(* the address map takes o to that name.                                   *)
(***************************************************************************)
C16_AddressMapResolvesEveryBoundObject ==
  \A n \in DOMAIN m_InstanceMap :
    /\ MapCount(m_AddressToNameMap, m_InstanceMap[n].object) = 1
    /\ m_AddressToNameMap[m_InstanceMap[n].object] = n

(***************************************************************************)
(* C20.  Between calls, every address map entry address -> name is for a   *)
(* name that the instance map binds to exactly that address.               *)
(***************************************************************************)
C20_AddressMapNeverDangles ==
  \A o \in DOMAIN m_AddressToNameMap :
    /\ Exists(Self, m_AddressToNameMap[o])
    /\ m_InstanceMap[m_AddressToNameMap[o]].object = o

C20_Witness ==
  /\ last.op = "DeleteObject"
  /\ last.exc = NoException
  /\ Cardinality(DOMAIN m_InstanceMap) = 2
  /\ \A n \in DOMAIN m_InstanceMap : m_InstanceMap[n].object = "p1"
  /\ m_AddressToNameMap = EmptyMap

(***************************************************************************)
(* C15.  SetDeleteFunction(type, func) never throws, changes neither the   *)
(* instance map nor the address map nor the counter, removes no entry of   *)
(* the delete function map, leaves the entries of other types alone and    *)
(* makes func the entry of type; and every call that destroys an instance  *)
(* invokes the function of the most recent SetDeleteFunction call for the  *)
(* instance's type, whenever the instance was bound.                       *)
(***************************************************************************)
C15_LastRegistrationWins ==
  [][/\ last'.op = "SetDeleteFunction" =>
          /\ last'.exc = NoException
          /\ m_InstanceMap' = m_InstanceMap
          /\ m_AddressToNameMap' = m_AddressToNameMap
          /\ m_TempNameNumber' = m_TempNameNumber
          /\ DOMAIN m_DeleteFunctionMap \subseteq DOMAIN m_DeleteFunctionMap'
          /\ MapCount(m_DeleteFunctionMap', last'.type) = 1
          /\ m_DeleteFunctionMap'[last'.type] = last'.fn
          /\ \A ty \in DOMAIN m_DeleteFunctionMap \ {last'.type} :
               m_DeleteFunctionMap'[ty] = m_DeleteFunctionMap[ty]
     /\ \A n \in Destroyed :
          /\ Steps(last'.ev, "delete") # {}
          /\ \A i \in Steps(last'.ev, "delete") :
               /\ m_InstanceMap[n].type \in DOMAIN registered
               /\ last'.ev[i].fn = registered[m_InstanceMap[n].type]]_vars

C15_Witness ==
  /\ last.op = "SetDeleteFunction"
  /\ last.type = "TypeX"
  /\ last.fn = "deleteNotifying"
  /\ "p1" \in freed
  /\ \E n \in DOMAIN m_InstanceMap : m_InstanceMap[n].type = "TypeX"

(***************************************************************************)
(* C17.  In a DeleteObject(name) that returns, the address is erased from  *)
(* the address map before the delete function is invoked, and the name is  *)
(* erased from the instance map and the Tcl command deleted after it; a    *)
(* DeleteCallBack(object) made from inside the delete function does        *)
(* nothing, so the call invokes the delete function once and deletes the   *)
(* Tcl command once.  The trace of the call is exactly these steps in this *)
(* order, with the nested DeleteCallBack, when made, adding none.          *)
(***************************************************************************)
C17_AddressErasedBeforeDelete ==
  [][(last'.op = "DeleteObject" /\ last'.exc = NoException) =>
       LET name == last'.name
           object == m_InstanceMap[name].object
           fn == m_DeleteFunctionMap[m_InstanceMap[name].type]
       IN \/ last'.ev = <<EvEraseAddress(object), EvDelete(fn, object),
                          EvEraseName(name), EvDeleteCommand(name)>>
          \/ last'.ev = <<EvEraseAddress(object), EvDelete(fn, object),
                          EvCallBack(object),
                          EvEraseName(name), EvDeleteCommand(name)>>]_vars

C17_Witness ==
  /\ last.op = "DeleteObject"
  /\ last.exc = NoException
  /\ Steps(last.ev, "DeleteCallBack") # {}
  /\ NumDeletes(last.ev) = 1
  /\ NumDeleteCommands(last.ev) = 1
  /\ DOMAIN m_InstanceMap # {}

C19_TemporaryNameUnbound ==
  [][last'.op = "CreateTemporary" =>
       /\ ~Exists(Self, TempName(m_TempNameNumber))
       /\ NumDeletes(last'.ev) = 0
       /\ Steps(last'.ev, "m_InstanceMap.erase") = {}]_vars

====
